---- MODULE Spec2Model ----
(***************************************************************************)
(* A model of perhaps.maybe (src/perhaps/maybe.py): the Maybe type with    *)
(* its two variants Just and Nothing, their combinators, and the Peekable  *)
(* iterator of src/tests/test_peekable.py that is built from them.         *)
(*                                                                         *)
(* Python values are records tagged with their type; a call of a           *)
(* caller-supplied function is a lookup in its table, and every method     *)
(* returns its outcome (a returned value or a raised error) together with  *)
(* the log of the calls it made to caller-supplied functions.              *)
(***************************************************************************)
EXTENDS Integers, Sequences, FiniteSets, TLC

\* ------------------------------------------------------------------ bounds
\* Python ints 0..MaxVal are the contained values (besides None).
MaxVal == 1
\* Longest source sequence handed to Peekable.
MaxLen == 3
\* Threads that construct Maybes concurrently.
NumThreads == 2
\* Constructor calls each thread makes.
MaxCalls == 2

\* ----------------------------------------------------------- Python values
PyNone == [ty |-> "NoneType"]
PyInt(n) == [ty |-> "int", n |-> n]
IntVals == {PyInt(n) : n \in 0..MaxVal}
\* Every value a Maybe may contain: T is unconstrained, so None is one.
Val == IntVals \cup {PyNone}

\* v == w on contained values (int.__eq__, NoneType identity)
PyEq(v, w) == v = w

\* ------------------------------------------------------------ Python errors
Error(kind, msg) == [kind |-> kind, msg |-> msg]

\* The built-in exception classes the model uses, each with its base class.
ExcParent ==
  [ k \in {"BaseException", "Exception", "KeyboardInterrupt", "LookupError",
           "KeyError", "ValueError", "StopIteration", "ZeroDivisionError",
           "TypeError"} |->
      CASE k = "BaseException"     -> "object"
        [] k = "Exception"         -> "BaseException"
        [] k = "KeyboardInterrupt" -> "BaseException"
        [] k = "LookupError"       -> "Exception"
        [] k = "KeyError"          -> "LookupError"
        [] k = "ValueError"        -> "Exception"
        [] k = "StopIteration"     -> "Exception"
        [] k = "ZeroDivisionError" -> "Exception"
        [] k = "TypeError"         -> "Exception" ]

ExcClasses == DOMAIN ExcParent

RECURSIVE IsSubclass(_, _)
\* issubclass(k, c)
IsSubclass(k, c) ==
  IF k = c THEN TRUE
  ELSE IF k \notin ExcClasses THEN FALSE
  ELSE IsSubclass(ExcParent[k], c)

\* Type[Exception]: the classes that may be declared to from_try
ExceptionClasses == {k \in ExcClasses : IsSubclass(k, "Exception")}

\* `except exc:` catches e when e is an instance of exc (or of a member of
\* the tuple exc), subclasses included.
ExceptMatches(e, exc) == \E c \in exc : IsSubclass(e.kind, c)

\* --------------------------------------------- outcomes of a Python call
Returns(v) == [raised |-> FALSE, val |-> v]
Raises(e) == [raised |-> TRUE, err |-> e]
\* What a method did: its outcome and the argument tuples of the calls it
\* made to the caller-supplied function, in order.
Result(out, calls) == [out |-> out, calls |-> calls]

\* ------------------------------------------------------------------- Maybe
Just(v) == [tag |-> "Just", value |-> v]
Nothing == [tag |-> "Nothing"]
IsJust(m) == m.tag = "Just"
IsNothing(m) == m.tag = "Nothing"
Maybes == {Nothing} \cup {Just(v) : v \in Val}

\* ----------------------------------------------- caller-supplied functions
\* Errors a caller-supplied function may raise.
FnErrors == {Error("ValueError", "invalid literal"), Error("KeyError", "k")}
\* f: T -> R that returns on every argument
TotalFns == [Val -> {Returns(v) : v \in Val}]
\* f: T -> R that may raise on some arguments
UnaryFns == [Val -> {Returns(v) : v \in Val} \cup {Raises(e) : e \in FnErrors}]
\* f: T -> Maybe[R]
BindFns == [Val -> {Returns(m) : m \in Maybes} \cup {Raises(e) : e \in FnErrors}]
\* lambda x: x
Identity == [x \in Val |-> Returns(x)]
\* Just as a function: lambda x: Just(x)
JustFn == [x \in Val |-> Returns(Just(x))]
\* lambda x: g(f(x))
Compose(g, f) == [x \in Val |-> IF f[x].raised THEN f[x] ELSE g[f[x].val]]

\* ----------------------------------------------------------- __eq__, __bool__
\* Just.__eq__ that compares the variant only
Just_eq_TagOnly(self, other) == IsJust(other)

Just_eq(self, other) == IsJust(other) /\ PyEq(self.value, other.value)
Nothing_eq(self, other) == IsNothing(other)
Maybe_eq(self, other) ==
  IF IsJust(self) THEN Just_eq(self, other) ELSE Nothing_eq(self, other)

Just_bool(self) == TRUE
Nothing_bool(self) == FALSE
Maybe_bool(self) == IF IsJust(self) THEN Just_bool(self) ELSE Nothing_bool(self)

\* ------------------------------------------------------------- map, bind
\* Just.map that wraps the old value without applying f
Just_map_Unapplied(self, f) ==
  Result(Returns(Just(self.value)), <<<<self.value>>>>)

Just_map(self, f) ==
  LET r == f[self.value] IN
  IF r.raised THEN Result(r, <<<<self.value>>>>)
  ELSE Result(Returns(Just(r.val)), <<<<self.value>>>>)

Nothing_map(self, f) == Result(Returns(Nothing), <<>>)

Maybe_map(self, f) ==
  IF IsJust(self) THEN Just_map(self, f) ELSE Nothing_map(self, f)

Just_bind(self, f) == Result(f[self.value], <<<<self.value>>>>)

Nothing_bind(self, f) == Result(Returns(Nothing), <<>>)

Maybe_bind(self, f) ==
  IF IsJust(self) THEN Just_bind(self, f) ELSE Nothing_bind(self, f)

Just_and_then(self, f) == Maybe_bind(self, f)

Nothing_and_then(self, f) == Maybe_bind(self, f)

Maybe_and_then(self, f) ==
  IF IsJust(self) THEN Just_and_then(self, f) ELSE Nothing_and_then(self, f)

\* --------------------------------------------------------------- lift2
\* Binary functions handed to lift2, by name.
BinaryFns == {"add", "sub", "first", "second"}

\* f(v, w): int.__add__ and int.__sub__ raise TypeError on a non-int
\* argument; lambda x, y: x and lambda x, y: y accept anything.
Apply2(f, v, w) ==
  CASE f = "first" -> Returns(v)
    [] f = "second" -> Returns(w)
    [] f \in {"add", "sub"} ->
         IF v.ty = "int" /\ w.ty = "int"
         THEN Returns(PyInt(IF f = "add" THEN v.n + w.n ELSE v.n - w.n))
         ELSE Raises(Error("TypeError", "descriptor requires an int"))

\* Just._lift2 that hands f its arguments in the wrong order
Just__lift2_Swapped(self, f, other) ==
  LET lam == [x \in Val |-> Apply2(f, x, self.value)]
      r == Maybe_map(other, lam)
  IN Result(r.out, [i \in DOMAIN r.calls |-> r.calls[i] \o <<self.value>>])

\* other.map(lambda x: f(self.value, x)); the log lists the calls of f
Just__lift2(self, f, other) ==
  LET lam == [x \in Val |-> Apply2(f, self.value, x)]
      r == Maybe_map(other, lam)
  IN Result(r.out, [i \in DOMAIN r.calls |-> <<self.value>> \o r.calls[i]])

Nothing__lift2(self, f, other) == Result(Returns(Nothing), <<>>)

Maybe__lift2(self, f, other) ==
  IF IsJust(self) THEN Just__lift2(self, f, other)
  ELSE Nothing__lift2(self, f, other)

\* Maybe.lift2(operation)(left, right)
Maybe_lift2(operation, left, right) == Maybe__lift2(left, operation, right)

\* ------------------------------------------------------------ from_try
\* Zero-argument computations: return a value or raise an error.
RaisableKinds == ExcClasses \ {"BaseException"}
Thunks == {Returns(v) : v \in Val}
            \cup {Raises(Error(k, "boom")) : k \in RaisableKinds}

\* from_try with a bare `except Exception:` in place of `except exc:`
Maybe_from_try_CatchAll(f, exc) ==
  IF ~f.raised THEN Result(Returns(Just(f.val)), << <<>> >>)
  ELSE IF ExceptMatches(f.err, {"Exception"})
       THEN Result(Returns(Nothing), << <<>> >>)
  ELSE Result(Raises(f.err), << <<>> >>)

\* try: return Just(f())  except exc: return Nothing()
Maybe_from_try(f, exc) ==
  IF ~f.raised THEN Result(Returns(Just(f.val)), << <<>> >>)
  ELSE IF ExceptMatches(f.err, exc) THEN Result(Returns(Nothing), << <<>> >>)
  ELSE Result(Raises(f.err), << <<>> >>)

\* --------------------------------------------------------------- unwrap
\* What an error factory may produce: an exception instance or a class.
ErrorClass(k) == [class |-> k]
ErrObjs == {Error(k, "oops") : k \in {"TypeError", "ValueError", "StopIteration"}}
             \cup {ErrorClass(k) : k \in {"StopIteration", "ValueError"}}
\* `raise x`: a class is instantiated without arguments
PyRaise(x) == IF "class" \in DOMAIN x THEN Error(x.class, "") ELSE x
\* unwrap's f: None (the default) or a function object, which is truthy
NoFactory == PyNone
Factories == {Returns(x) : x \in ErrObjs} \cup {Raises(e) : e \in FnErrors}

\* the default error of unwrap, raised as a bare Exception
DefaultUnwrapError_Bare == Error("Exception", "Tried to unwrap Nothing")

DefaultUnwrapError == Error("ValueError", "Tried to unwrap Nothing")

Just_unwrap(self, f) == Result(Returns(self.value), <<>>)

\* Nothing.unwrap that ignores the factory
Nothing_unwrap_IgnoresFactory(self, f) ==
  Result(Raises(DefaultUnwrapError), <<>>)

Nothing_unwrap(self, f) ==
  IF f # NoFactory
  THEN (IF f.raised THEN Result(f, << <<>> >>)
        ELSE Result(Raises(PyRaise(f.val)), << <<>> >>))
  ELSE Result(Raises(DefaultUnwrapError), <<>>)

Maybe_unwrap(self, f) ==
  IF IsJust(self) THEN Just_unwrap(self, f) ELSE Nothing_unwrap(self, f)

Just_unwrap_or(self, default) == Result(Returns(self.value), <<>>)
Nothing_unwrap_or(self, default) == Result(Returns(default), <<>>)
Maybe_unwrap_or(self, default) ==
  IF IsJust(self) THEN Just_unwrap_or(self, default)
  ELSE Nothing_unwrap_or(self, default)

Suppliers == {Returns(v) : v \in Val} \cup {Raises(e) : e \in FnErrors}

Just_unwrap_or_else(self, f) == Result(Returns(self.value), <<>>)
Nothing_unwrap_or_else(self, f) == Result(f, << <<>> >>)
Maybe_unwrap_or_else(self, f) ==
  IF IsJust(self) THEN Just_unwrap_or_else(self, f)
  ELSE Nothing_unwrap_or_else(self, f)

\* ------------------------------------------------------ __and__, __or__
Just_and(self, other) == other
\* Nothing.__and__ that returns other, as Just.__and__ does
Nothing_and_ReturnsOther(self, other) == other

Nothing_and(self, other) == IF IsNothing(other) THEN other ELSE self
Maybe_and(self, other) ==
  IF IsJust(self) THEN Just_and(self, other) ELSE Nothing_and(self, other)

Just_or(self, other) == self
Nothing_or(self, other) == other
Maybe_or(self, other) ==
  IF IsJust(self) THEN Just_or(self, other) ELSE Nothing_or(self, other)

\* --------------------------------------------------- filter, filter_typed
PredFns == [Val -> BOOLEAN]

\* Just.filter_typed with the branches exchanged
Just_filter_typed_Negated(self, f) ==
  IF f[self.value] THEN Result(Returns(Nothing), <<<<self.value>>>>)
  ELSE Result(Returns(Just(self.value)), <<<<self.value>>>>)

Just_filter_typed(self, f) ==
  IF f[self.value] THEN Result(Returns(Just(self.value)), <<<<self.value>>>>)
  ELSE Result(Returns(Nothing), <<<<self.value>>>>)

Just_filter(self, f) ==
  Result(Returns(IF f[self.value] THEN self ELSE Nothing), <<<<self.value>>>>)

Nothing_filter_typed(self, f) == Result(Returns(Nothing), <<>>)
Nothing_filter(self, f) == Result(Returns(Nothing), <<>>)

Maybe_filter_typed(self, f) ==
  IF IsJust(self) THEN Just_filter_typed(self, f)
  ELSE Nothing_filter_typed(self, f)

Maybe_filter(self, f) ==
  IF IsJust(self) THEN Just_filter(self, f) ELSE Nothing_filter(self, f)

\* ----------------------------------------------- to_optional, from_optional
Just_to_optional(self) == self.value
Nothing_to_optional(self) == PyNone
Maybe_to_optional(self) ==
  IF IsJust(self) THEN Just_to_optional(self) ELSE Nothing_to_optional(self)

\* from_optional without the None test
Maybe_from_optional_AlwaysJust(value) == Just(value)

\* Just(value) if value is not None else Nothing()
Maybe_from_optional(value) == IF value # PyNone THEN Just(value) ELSE Nothing

\* ------------------------------------------------------------------- state
VARIABLES
  op,      \* the expression last evaluated
  self,    \* its receiver (or first Maybe argument)
  other,   \* its second Maybe argument
  fn,      \* the caller-supplied function (or value) handed to it
  fn2,     \* a second caller-supplied function
  res,     \* what the evaluation did: Result(outcome, calls)
  source,  \* Peekable: the sequence the source iterator runs over
  it,      \* Peekable: how many elements the source iterator has produced
  current, \* Peekable.current
  returned, \* Peekable: the values next() has returned so far, in order
  instance, \* the class attribute Nothing.instance: an object or None
  heap,     \* the class of every object allocated so far, by object id
  pc,       \* per thread: its position inside the constructor call
  tmp,      \* per thread: the object super().__new__(cls) gave it
  rets      \* per thread: what its constructor calls returned, in order

peekVars == <<source, it, current, returned>>
newVars == <<instance, heap, pc, tmp, rets>>
vars == <<op, self, other, fn, fn2, res, source, it, current, returned,
          instance, heap, pc, tmp, rets>>

Threads == 1..NumThreads
\* Objects are identified by their position in heap; None is no object.
NoneRef == 0

\* Nothing.instance as the class body sets it, and no call under way
NewInit ==
  /\ instance = NoneRef
  /\ heap = <<>>
  /\ pc = [t \in Threads |-> "idle"]
  /\ tmp = [t \in Threads |-> NoneRef]
  /\ rets = [t \in Threads |-> <<>>]

Unused == "-"

\* Every behaviour evaluates one expression on freshly drawn inputs.
Init ==
  /\ op = "init"
  /\ self = Unused
  /\ other = Unused
  /\ fn = Unused
  /\ fn2 = Unused
  /\ res = Unused
  /\ source = <<>>
  /\ it = 0
  /\ current = Unused
  /\ returned = <<>>
  /\ NewInit

\* m.map(f)
Map ==
  /\ op = "init"
  /\ UNCHANGED peekVars
  /\ UNCHANGED newVars
  /\ \E m \in Maybes, f \in UnaryFns :
    /\ op' = "map"
    /\ self' = m
    /\ fn' = f
    /\ res' = Maybe_map(m, f)
    /\ UNCHANGED <<other, fn2>>

\* m.map(f).map(g)
MapMap ==
  /\ op = "init"
  /\ UNCHANGED peekVars
  /\ UNCHANGED newVars
  /\ \E m \in Maybes, f \in TotalFns, g \in TotalFns :
    LET r1 == Maybe_map(m, f)
        r2 == Maybe_map(r1.out.val, g)
    IN /\ op' = "map_map"
       /\ self' = m
       /\ fn' = f
       /\ fn2' = g
       /\ res' = Result(r2.out, r1.calls \o r2.calls)
       /\ UNCHANGED other

\* m.bind(f)
Bind ==
  /\ op = "init"
  /\ UNCHANGED peekVars
  /\ UNCHANGED newVars
  /\ \E m \in Maybes, f \in BindFns :
    /\ op' = "bind"
    /\ self' = m
    /\ fn' = f
    /\ res' = Maybe_bind(m, f)
    /\ UNCHANGED <<other, fn2>>

\* m.and_then(f)
AndThen ==
  /\ op = "init"
  /\ UNCHANGED peekVars
  /\ UNCHANGED newVars
  /\ \E m \in Maybes, f \in BindFns :
    /\ op' = "and_then"
    /\ self' = m
    /\ fn' = f
    /\ res' = Maybe_and_then(m, f)
    /\ UNCHANGED <<other, fn2>>

\* Maybe.lift2(f)(a, b)
Lift2 ==
  /\ op = "init"
  /\ UNCHANGED peekVars
  /\ UNCHANGED newVars
  /\ \E a \in Maybes, b \in Maybes, f \in BinaryFns :
    /\ op' = "lift2"
    /\ self' = a
    /\ other' = b
    /\ fn' = f
    /\ res' = Maybe_lift2(f, a, b)
    /\ UNCHANGED fn2

\* a._lift2(f, b)
UnderLift2 ==
  /\ op = "init"
  /\ UNCHANGED peekVars
  /\ UNCHANGED newVars
  /\ \E a \in Maybes, b \in Maybes, f \in BinaryFns :
    /\ op' = "_lift2"
    /\ self' = a
    /\ other' = b
    /\ fn' = f
    /\ res' = Maybe__lift2(a, f, b)
    /\ UNCHANGED fn2

\* Maybe.from_try(f, exc)
FromTry ==
  /\ op = "init"
  /\ UNCHANGED peekVars
  /\ UNCHANGED newVars
  /\ \E f \in Thunks, exc \in SUBSET ExceptionClasses :
    /\ op' = "from_try"
    /\ fn' = f
    /\ fn2' = exc
    /\ res' = Maybe_from_try(f, exc)
    /\ UNCHANGED <<self, other>>

\* m.unwrap() and m.unwrap(factory)
Unwrap ==
  /\ op = "init"
  /\ UNCHANGED peekVars
  /\ UNCHANGED newVars
  /\ \E m \in Maybes, f \in Factories \cup {NoFactory} :
    /\ op' = "unwrap"
    /\ self' = m
    /\ fn' = f
    /\ res' = Maybe_unwrap(m, f)
    /\ UNCHANGED <<other, fn2>>

\* m.unwrap_or(d)
UnwrapOr ==
  /\ op = "init"
  /\ UNCHANGED peekVars
  /\ UNCHANGED newVars
  /\ \E m \in Maybes, d \in Val :
    /\ op' = "unwrap_or"
    /\ self' = m
    /\ fn' = d
    /\ res' = Maybe_unwrap_or(m, d)
    /\ UNCHANGED <<other, fn2>>

\* m.unwrap_or_else(s)
UnwrapOrElse ==
  /\ op = "init"
  /\ UNCHANGED peekVars
  /\ UNCHANGED newVars
  /\ \E m \in Maybes, s \in Suppliers :
    /\ op' = "unwrap_or_else"
    /\ self' = m
    /\ fn' = s
    /\ res' = Maybe_unwrap_or_else(m, s)
    /\ UNCHANGED <<other, fn2>>

\* a & b
And ==
  /\ op = "init"
  /\ UNCHANGED peekVars
  /\ UNCHANGED newVars
  /\ \E a \in Maybes, b \in Maybes :
    /\ op' = "and"
    /\ self' = a
    /\ other' = b
    /\ res' = Result(Returns(Maybe_and(a, b)), <<>>)
    /\ UNCHANGED <<fn, fn2>>

\* a | b
Or ==
  /\ op = "init"
  /\ UNCHANGED peekVars
  /\ UNCHANGED newVars
  /\ \E a \in Maybes, b \in Maybes :
    /\ op' = "or"
    /\ self' = a
    /\ other' = b
    /\ res' = Result(Returns(Maybe_or(a, b)), <<>>)
    /\ UNCHANGED <<fn, fn2>>

\* m.filter(p)
Filter ==
  /\ op = "init"
  /\ UNCHANGED peekVars
  /\ UNCHANGED newVars
  /\ \E m \in Maybes, p \in PredFns :
    /\ op' = "filter"
    /\ self' = m
    /\ fn' = p
    /\ res' = Maybe_filter(m, p)
    /\ UNCHANGED <<other, fn2>>

\* m.filter_typed(p)
FilterTyped ==
  /\ op = "init"
  /\ UNCHANGED peekVars
  /\ UNCHANGED newVars
  /\ \E m \in Maybes, p \in PredFns :
    /\ op' = "filter_typed"
    /\ self' = m
    /\ fn' = p
    /\ res' = Maybe_filter_typed(m, p)
    /\ UNCHANGED <<other, fn2>>

\* m.to_optional()
ToOptional ==
  /\ op = "init"
  /\ UNCHANGED peekVars
  /\ UNCHANGED newVars
  /\ \E m \in Maybes :
    /\ op' = "to_optional"
    /\ self' = m
    /\ res' = Result(Returns(Maybe_to_optional(m)), <<>>)
    /\ UNCHANGED <<other, fn, fn2>>

\* Maybe.from_optional(v)
FromOptional ==
  /\ op = "init"
  /\ UNCHANGED peekVars
  /\ UNCHANGED newVars
  /\ \E v \in Val :
    /\ op' = "from_optional"
    /\ fn' = v
    /\ res' = Result(Returns(Maybe_from_optional(v)), <<>>)
    /\ UNCHANGED <<self, other, fn2>>

\* Maybe.from_optional(m.to_optional())
RoundTripMaybe ==
  /\ op = "init"
  /\ UNCHANGED peekVars
  /\ UNCHANGED newVars
  /\ \E m \in Maybes :
    /\ op' = "from_optional(to_optional)"
    /\ self' = m
    /\ res' = Result(Returns(Maybe_from_optional(Maybe_to_optional(m))), <<>>)
    /\ UNCHANGED <<other, fn, fn2>>

\* Maybe.from_optional(v).to_optional()
RoundTripOptional ==
  /\ op = "init"
  /\ UNCHANGED peekVars
  /\ UNCHANGED newVars
  /\ \E v \in Val :
    /\ op' = "to_optional(from_optional)"
    /\ fn' = v
    /\ res' = Result(Returns(Maybe_to_optional(Maybe_from_optional(v))), <<>>)
    /\ UNCHANGED <<self, other, fn2>>

\* a == b, on independently constructed a and b
Eq ==
  /\ op = "init"
  /\ UNCHANGED peekVars
  /\ UNCHANGED newVars
  /\ \E a \in Maybes, b \in Maybes :
    /\ op' = "eq"
    /\ self' = a
    /\ other' = b
    /\ res' = Result(Returns(Maybe_eq(a, b)), <<>>)
    /\ UNCHANGED <<fn, fn2>>

\* The ways of the API to produce a Nothing.
NothingPaths == {"Nothing()", "from_optional", "from_try", "map", "bind", "filter"}

NothingVia(path) ==
  CASE path = "Nothing()" -> Nothing
    [] path = "from_optional" -> Maybe_from_optional(PyNone)
    [] path = "from_try" ->
         Maybe_from_try(Raises(Error("ZeroDivisionError", "boom")),
                        {"ZeroDivisionError"}).out.val
    [] path = "map" -> Maybe_map(Nothing, Identity).out.val
    [] path = "bind" -> Maybe_bind(Nothing, JustFn).out.val
    [] path = "filter" ->
         Maybe_filter(Just(PyInt(0)), [x \in Val |-> FALSE]).out.val

\* a == b, where a and b are Nothings produced along two paths
EqNothingPaths ==
  /\ op = "init"
  /\ UNCHANGED peekVars
  /\ UNCHANGED newVars
  /\ \E p \in NothingPaths, q \in NothingPaths :
    /\ op' = "eq_paths"
    /\ self' = NothingVia(p)
    /\ other' = NothingVia(q)
    /\ fn' = <<p, q>>
    /\ res' = Result(Returns(Maybe_eq(NothingVia(p), NothingVia(q))), <<>>)
    /\ UNCHANGED fn2

Next ==
  \/ Map
  \/ MapMap
  \/ Bind
  \/ AndThen
  \/ Lift2
  \/ UnderLift2
  \/ FromTry
  \/ Unwrap
  \/ UnwrapOr
  \/ UnwrapOrElse
  \/ And
  \/ Or
  \/ Filter
  \/ FilterTyped
  \/ ToOptional
  \/ FromOptional
  \/ RoundTripMaybe
  \/ RoundTripOptional
  \/ Eq
  \/ EqNothingPaths

Spec == Init /\ [][Next]_vars

\* ---------------------------------------------------------------- Peekable
RECURSIVE SeqsUpTo(_, _)
\* The sequences over S of length at most n
SeqsUpTo(S, n) ==
  IF n = 0 THEN {<<>>}
  ELSE LET shorter == SeqsUpTo(S, n - 1)
       IN shorter \cup {Append(q, x) : q \in {r \in shorter : Len(r) = n - 1}, x \in S}

\* next(self.source) on the iterator of a list: the outcome and the
\* iterator's new position
SourceNext(s, i) ==
  IF i < Len(s) THEN [out |-> Returns(s[i + 1]), it |-> i + 1]
  ELSE [out |-> Raises(Error("StopIteration", "")), it |-> i]

\* Maybe.from_try(lambda: next(self.source), StopIteration)
Advance(s, i) ==
  LET n == SourceNext(s, i)
  IN [out |-> Maybe_from_try(n.out, {"StopIteration"}).out, it |-> n.it]

\* The state after Peekable(s).__init__
InitPeekable ==
  /\ op = "init"
  /\ self = Unused
  /\ other = Unused
  /\ fn = Unused
  /\ fn2 = Unused
  /\ res = Unused
  /\ source \in SeqsUpTo(Val, MaxLen)
  /\ it = Advance(source, 0).it
  /\ current = Advance(source, 0).out.val
  /\ returned = <<>>
  /\ NewInit

\* peekable.peek()
Peek ==
  /\ op' = "peek"
  /\ res' = Result(Returns(current), <<>>)
  /\ UNCHANGED <<self, other, fn, fn2, source, it, current, returned>>
  /\ UNCHANGED newVars

\* __next__ that does not refill self.current
PeekableNext_NoRefill ==
  LET r == Maybe_unwrap(current, Returns(ErrorClass("StopIteration")))
  IN /\ op' = "next"
     /\ IF r.out.raised
        THEN /\ res' = r
             /\ UNCHANGED returned
        ELSE /\ res' = Result(r.out, <<>>)
             /\ returned' = Append(returned, r.out.val)
     /\ UNCHANGED <<self, other, fn, fn2, source, it, current>>
     /\ UNCHANGED newVars

\* next(peekable)
PeekableNext ==
  LET r == Maybe_unwrap(current, Returns(ErrorClass("StopIteration")))
      a == Advance(source, it)
  IN /\ op' = "next"
     /\ IF r.out.raised
        THEN /\ res' = r
             /\ UNCHANGED <<it, current, returned>>
        ELSE /\ it' = a.it
             /\ current' = a.out.val
             /\ res' = Result(r.out, <<>>)
             /\ returned' = Append(returned, r.out.val)
     /\ UNCHANGED <<self, other, fn, fn2, source>>
     /\ UNCHANGED newVars

NextPeekable ==
  \/ Peek
  \/ PeekableNext

SpecPeekable == InitPeekable /\ [][NextPeekable]_vars

\* ------------------------------------------- Nothing.__new__ under threads
apiVars == <<op, self, other, fn, fn2, res>>

\* Threads about to call Nothing() or Just(v), Nothing.instance still None
InitNew ==
  /\ op = "init"
  /\ self = Unused
  /\ other = Unused
  /\ fn = Unused
  /\ fn2 = Unused
  /\ res = Unused
  /\ source = <<>>
  /\ it = 0
  /\ current = Unused
  /\ returned = <<>>
  /\ NewInit

\* A thread may start another constructor call.
CanCall(t) == pc[t] = "idle" /\ Len(rets[t]) < MaxCalls

\* Nothing(): __new__ evaluates `cls.instance is None`
NewCheck(t) ==
  /\ CanCall(t)
  /\ pc' = [pc EXCEPT ![t] = IF instance = NoneRef THEN "alloc" ELSE "return"]
  /\ UNCHANGED <<instance, heap, tmp, rets>>
  /\ UNCHANGED <<apiVars, peekVars>>

\* super().__new__(cls): a fresh object of class Nothing
NewAlloc(t) ==
  /\ pc[t] = "alloc"
  /\ heap' = Append(heap, "Nothing")
  /\ tmp' = [tmp EXCEPT ![t] = Len(heap) + 1]
  /\ pc' = [pc EXCEPT ![t] = "store"]
  /\ UNCHANGED <<instance, rets>>
  /\ UNCHANGED <<apiVars, peekVars>>

\* cls.instance = <the fresh object>
NewStore(t) ==
  /\ pc[t] = "store"
  /\ instance' = tmp[t]
  /\ pc' = [pc EXCEPT ![t] = "return"]
  /\ UNCHANGED <<heap, tmp, rets>>
  /\ UNCHANGED <<apiVars, peekVars>>

\* return cls.instance
NewReturn(t) ==
  /\ pc[t] = "return"
  /\ rets' = [rets EXCEPT ![t] = Append(@, [cls |-> "Nothing", obj |-> instance])]
  /\ pc' = [pc EXCEPT ![t] = "idle"]
  /\ UNCHANGED <<instance, heap, tmp>>
  /\ UNCHANGED <<apiVars, peekVars>>

\* Just(v): object.__new__ gives a fresh object, __init__ sets its value
JustNew(t) ==
  /\ CanCall(t)
  /\ heap' = Append(heap, "Just")
  /\ rets' = [rets EXCEPT ![t] = Append(@, [cls |-> "Just", obj |-> Len(heap) + 1])]
  /\ UNCHANGED <<instance, pc, tmp>>
  /\ UNCHANGED <<apiVars, peekVars>>

NextNew ==
  \/ \E t \in Threads : NewCheck(t)
  \/ \E t \in Threads : NewAlloc(t)
  \/ \E t \in Threads : NewStore(t)
  \/ \E t \in Threads : NewReturn(t)
  \/ \E t \in Threads : JustNew(t)

SpecNew == InitNew /\ [][NextNew]_vars

\* ================================================================= claims
\* C1: m.map(f) is Just(f(v)) on Just(v) and Nothing on Nothing, m.bind(f)
\* is f(v) on Just(v) and Nothing on Nothing, and f is never invoked on
\* Nothing; hence m.map(identity) == m, m.map(f).map(g) == m.map(g after f),
\* m.bind(Just) == m, Just(v).bind(f) == f(v), and m.and_then(f) == m.bind(f).
MapBindLaws ==
  /\ op = "map" =>
       /\ IsNothing(self) => res = Result(Returns(Nothing), <<>>)
       /\ (IsJust(self) /\ ~fn[self.value].raised) =>
            /\ res.out = Returns(Just(fn[self.value].val))
            /\ res.calls = <<<<self.value>>>>
       /\ fn = Identity => Maybe_eq(res.out.val, self)
  /\ op = "map_map" =>
       /\ Maybe_eq(res.out.val, Maybe_map(self, Compose(fn2, fn)).out.val)
       /\ IsNothing(self) => res.calls = <<>>
  /\ op = "bind" =>
       /\ IsNothing(self) => res = Result(Returns(Nothing), <<>>)
       /\ IsJust(self) => res.out = fn[self.value]
       /\ fn = JustFn => Maybe_eq(res.out.val, self)
  /\ op = "and_then" =>
       /\ res.out.raised = Maybe_bind(self, fn).out.raised
       /\ res.out.raised => res.out.err = Maybe_bind(self, fn).out.err
       /\ ~res.out.raised => Maybe_eq(res.out.val, Maybe_bind(self, fn).out.val)
       /\ IsNothing(self) => res = Result(Returns(Nothing), <<>>)

\* A Just mapped twice by functions that are not the identity.
MapBindWitness ==
  /\ op = "map_map"
  /\ IsJust(self)
  /\ fn # Identity
  /\ fn2 # Identity
  /\ res.out.val # self
  /\ Len(res.calls) = 2

FromTryFilter ==
  op = "from_try" =>
    /\ Len(res.calls) = 1
    /\ ~fn.raised => res.out = Returns(Just(fn.val))
    /\ (fn.raised /\ (\E c \in fn2 : IsSubclass(fn.err.kind, c))) =>
         res.out = Returns(Nothing)
    /\ (fn.raised /\ ~(\E c \in fn2 : IsSubclass(fn.err.kind, c))) =>
         res.out = Raises(fn.err)

\* An undeclared error propagates although other kinds are declared.
FromTryWitness ==
  /\ op = "from_try"
  /\ fn2 # {}
  /\ fn.raised
  /\ fn.err.kind = "ValueError"
  /\ res.out.raised

\* C4: on Just(v), unwrap(), unwrap(factory), unwrap_or(d) and
\* unwrap_or_else(s) return v without invoking factory or s; on Nothing,
\* unwrap_or(d) returns d, unwrap_or_else(s) returns s() invoking s once,
\* unwrap(factory) raises the error factory() produced and unwrap() raises
\* ValueError('Tried to unwrap Nothing').
Extraction ==
  /\ (op \in {"unwrap", "unwrap_or", "unwrap_or_else"} /\ IsJust(self)) =>
       res = Result(Returns(self.value), <<>>)
  /\ (op = "unwrap_or" /\ IsNothing(self)) => res.out = Returns(fn)
  /\ (op = "unwrap_or_else" /\ IsNothing(self)) =>
       /\ res.out = fn
       /\ Len(res.calls) = 1
  /\ (op = "unwrap" /\ IsNothing(self) /\ fn # NoFactory /\ ~fn.raised) =>
       /\ res.out.raised
       /\ Len(res.calls) = 1
       /\ IF "class" \in DOMAIN fn.val
          THEN res.out.err.kind = fn.val.class
          ELSE res.out.err = fn.val
  /\ (op = "unwrap" /\ IsNothing(self) /\ fn = NoFactory) =>
       /\ res.out.raised
       /\ res.out.err.kind = "ValueError"
       /\ res.out.err.msg = "Tried to unwrap Nothing"

\* Nothing unwrapped with a factory that produces a TypeError.
ExtractionWitness ==
  /\ op = "unwrap"
  /\ IsNothing(self)
  /\ fn # NoFactory
  /\ res.out.raised
  /\ res.out.err = Error("TypeError", "oops")

\* C5 as stated: an observed error of the kind that unwrap raises on
\* Nothing always means that the value was absent.
UnwrapErrorDistinguishable ==
  (op # "init" /\ res.out.raised /\ res.out.err.kind = DefaultUnwrapError.kind)
    => (op = "unwrap" /\ IsNothing(self))

\* C5, amended: unwrap on Nothing without a factory raises the built-in
\* ValueError('Tried to unwrap Nothing'), and it is the only error an
\* operation raises without having invoked a caller-supplied function or
\* factory.
UnwrapOnlyOwnFailure ==
  /\ (op = "unwrap" /\ IsNothing(self) /\ fn = NoFactory) =>
       res = Result(Raises(Error("ValueError", "Tried to unwrap Nothing")), <<>>)
  /\ (op # "init" /\ res.out.raised /\ res.calls = <<>>) =>
       (op = "unwrap" /\ IsNothing(self) /\ fn = NoFactory)

\* Nothing unwrapped without a factory.
UnwrapDefaultWitness ==
  /\ op = "unwrap"
  /\ IsNothing(self)
  /\ fn = NoFactory
  /\ res.out.raised

\* C6: a & b is b when a is Just and Nothing when a is Nothing; a | b is a
\* when a is Just and b when a is Nothing; so bool(a & b) is bool(a) and
\* bool(b), and bool(a | b) is bool(a) or bool(b).
AndOrTable ==
  /\ op = "and" =>
       /\ IsJust(self) => Maybe_eq(res.out.val, other)
       /\ IsNothing(self) => Maybe_eq(res.out.val, Nothing)
       /\ Maybe_bool(res.out.val) = (Maybe_bool(self) /\ Maybe_bool(other))
  /\ op = "or" =>
       /\ IsJust(self) => Maybe_eq(res.out.val, self)
       /\ IsNothing(self) => Maybe_eq(res.out.val, other)
       /\ Maybe_bool(res.out.val) = (Maybe_bool(self) \/ Maybe_bool(other))

\* Nothing & Just(v).
AndOrWitness ==
  /\ op = "and"
  /\ IsNothing(self)
  /\ IsJust(other)
  /\ IsNothing(res.out.val)

\* C7: m.filter(p) is m when m = Just(v) and p(v) holds, Nothing
\* otherwise, p is never invoked on Nothing, and m.filter_typed(p) equals
\* m.filter(p).
FilterContract ==
  op \in {"filter", "filter_typed"} =>
    /\ (IsJust(self) /\ fn[self.value]) => Maybe_eq(res.out.val, self)
    /\ (IsNothing(self) \/ ~fn[self.value]) => Maybe_eq(res.out.val, Nothing)
    /\ IsNothing(self) => res.calls = <<>>
    /\ Maybe_eq(res.out.val, Maybe_filter(self, fn).out.val)
    /\ Maybe_eq(res.out.val, Maybe_filter_typed(self, fn).out.val)

\* filter_typed keeps a Just whose value passes a predicate that rejects
\* some other value.
FilterWitness ==
  /\ op = "filter_typed"
  /\ IsJust(self)
  /\ fn[self.value]
  /\ \E v \in Val : ~fn[v]
  /\ res.out.val = self

\* C8: Maybe.from_optional(x.to_optional()) == x for Nothing and for
\* Just(v) with v not None; Maybe.from_optional(v).to_optional() is v for
\* every v; from_optional(None) == Nothing and from_optional(v) == Just(v)
\* for v not None.
OptionalRoundTrip ==
  /\ (op = "from_optional(to_optional)"
        /\ (IsNothing(self) \/ self.value # PyNone)) =>
       Maybe_eq(res.out.val, self)
  /\ op = "to_optional(from_optional)" => res.out.val = fn
  /\ op = "from_optional" =>
       IF fn = PyNone THEN Maybe_eq(res.out.val, Nothing)
       ELSE Maybe_eq(res.out.val, Just(fn))
  /\ op = "to_optional" =>
       res.out.val = (IF IsJust(self) THEN self.value ELSE PyNone)

\* A Just of an int sent through the nullable form and back.
OptionalRoundTripWitness ==
  /\ op = "from_optional(to_optional)"
  /\ IsJust(self)
  /\ self.value = PyInt(1)
  /\ res.out.val = Just(PyInt(1))

\* C9: == on Maybe is reflexive, symmetric and value-based: Just(v) ==
\* Just(w) exactly when v == w, Nothing == Nothing along every path that
\* produces a Nothing, and Just(v) and Nothing are unequal both ways round.
EqualityLaws ==
  /\ op = "eq" =>
       /\ self = other => res.out.val
       /\ res.out.val = Maybe_eq(other, self)
       /\ (IsJust(self) /\ IsJust(other)) =>
            (res.out.val <=> PyEq(self.value, other.value))
       /\ (IsNothing(self) /\ IsNothing(other)) => res.out.val
       /\ (IsJust(self) # IsJust(other)) => ~res.out.val
  /\ op = "eq_paths" =>
       /\ IsNothing(self) /\ IsNothing(other)
       /\ res.out.val

\* Two Nothings from different paths compared.
EqualityWitness ==
  /\ op = "eq_paths"
  /\ fn = <<"filter", "from_try">>
  /\ res.out.val

\* How many elements of the source next() has returned.
Consumed == Len(returned)

\* C10: the k-th next() returns source[k], so iteration yields the source
\* in order whatever peek() calls are interleaved; peek() returns Just(x)
\* for the x the following next() returns and Nothing exactly when all
\* elements have been consumed; once exhausted every next() raises
\* StopIteration and peek() stays Nothing.
PeekableOrder ==
  /\ Consumed <= Len(source)
  /\ returned = SubSeq(source, 1, Consumed)
  /\ current = (IF Consumed < Len(source) THEN Just(source[Consumed + 1])
                ELSE Nothing)
  /\ op = "peek" =>
       /\ res.out = Returns(current)
       /\ IsNothing(res.out.val) <=> Consumed = Len(source)
  /\ (op = "next" /\ ~res.out.raised) =>
       /\ Consumed >= 1
       /\ res.out.val = source[Consumed]
  /\ (op = "next" /\ res.out.raised) =>
       /\ res.out.err.kind = "StopIteration"
       /\ Consumed = Len(source)

\* next() raised StopIteration after at least two elements were returned.
PeekableWitness ==
  /\ op = "next"
  /\ res.out.raised
  /\ Consumed >= 2
  /\ IsNothing(current)

\* The constructor calls made so far, as <<thread, index>> pairs.
Calls == {c \in Threads \X (1..MaxCalls) : c[2] <= Len(rets[c[1]])}
CallOf(c) == rets[c[1]][c[2]]

====
